---- MODULE Spec2Model ----
(***************************************************************************)
(* Multivariate k-Motiflets (motiflets.py): the distance-matrix build with *)
(* its parallel bins, the non-overlapping k-NN selection, the approximate  *)
(* k-motiflet search, the k-sweep with its upper-bound cascade, the elbow  *)
(* detection and the overlap filter.                                       *)
(*                                                                         *)
(* Arrays keep the 0-based indices of the source: an array of length L is  *)
(* a function on 0..L-1.  Real numbers are fixed point: a distance d is    *)
(* the integer d * Scale (the correlation term truncated to a whole unit), *)
(* and +infinity is the integer Inf, larger than every finite distance.    *)
(* The FFT of _sliding_dot_product is the exact sliding dot product.       *)
(***************************************************************************)
EXTENDS Integers, Sequences, FiniteSets, TLC

VARIABLES
    time_series,   \* the (dims x n) input: a sequence of channels, each a function on 0..n-1
    m,             \* window length
    k,             \* number of neighbours kept per offset (compute_distance_matrix's k)
    slack,         \* <<numerator, denominator>> of the slack fraction
    sum_dims,      \* compute_distance_matrix's sum_dims
    tie,           \* order of equal keys in the partial selection: "low" or "high" index first
    D_all,         \* D_all[c][o][j]
    knns,          \* knns[c][o][p]
    bin,           \* bin[idx]: the position of parallel bin idx in its two loops
    dot_prev,      \* dot_prev[idx]: the dot products of the row bin idx computed last
    wrote,         \* history: <<array, c, o, idx>> for every row written by bin idx
    status,        \* position of the caller (compute_distance_matrix, the sweep, ...)
    k_max,         \* search_k_motiflets_elbow's k_max
    n_dims,        \* its n_dims (0 stands for None)
    filter,        \* its filter
    test_k,        \* the sweep's loop variable
    upper_bound,   \* the sweep's upper bound
    k_motiflet_distances,   \* the extent per k
    k_motiflet_candidates,  \* the motiflet per k (None where none was stored)
    k_motiflet_dims,        \* the dimensions per k
    elbow_points,  \* the elbow points, a sorted sequence
    cur_dims,      \* search_k_motiflets_n_dims_elbow's loop variable dims
    au_ef          \* find_au_ef_motif_length's arguments, loop index and arrays (None outside it)

buildVars == <<time_series, m, k, slack, sum_dims, tie, D_all, knns, bin, dot_prev, wrote, status>>
buildState == <<time_series, m, k, slack, sum_dims, tie, D_all, knns, bin, dot_prev, wrote>>
sweepVars == <<k_max, n_dims, filter, test_k, upper_bound, k_motiflet_distances,
               k_motiflet_candidates, k_motiflet_dims, elbow_points, cur_dims,
               au_ef>>
vars == <<buildVars, sweepVars>>

----------------------------------------------------------------------------
(* Bounds of the model. *)

\* shortest series length n
MinLen == 6
\* longest series length n
MaxLen == 7
\* largest k handed to compute_distance_matrix directly
MaxK == 2
\* fixed-point units per 1.0
Scale == 100
\* longest series length n handed to search_k_motiflets_elbow
MaxSweepLen == 12
\* largest k_max handed to search_k_motiflets_elbow
MaxKUser == 4
\* largest k of the extent curves handed to the elbow analysis on their own
MaxCurveK == 8
\* length of the rows handed to _argknn on their own
MaxRowLen == 6

(* Program constants. *)

\* None
None == <<>>

\* n_jobs=4: the number of bins
n_jobs == 4
\* np.inf
Inf == 99999999
\* alpha=2 of find_elbow_points
alpha == 2
\* 1 / 0.00001, the term added to m1 and m2 in find_elbow_points
EpsInv == 100000
\* elbow_deviation=1.00 as <<numerator, denominator>>
elbow_deviation == <<1, 1>>

\* The sample series of the repository's examples (d = 3, n = 14).
arr ==
    << <<2,2,5,5,2,2,6,6,2,2,4,4,2,2>>,
       <<2,2,6,3,2,2,4,3,2,2,5,3,2,2>>,
       <<6,2,4,2,3,1,6,5,3,2,4,5,2,4>> >>

----------------------------------------------------------------------------
(* Arithmetic helpers. *)

Min(a, b) == IF a <= b THEN a ELSE b
Max(a, b) == IF a >= b THEN a ELSE b
Abs(a) == IF a < 0 THEN -a ELSE a

\* int(x) of a non-negative rational num/den
FloorDiv(num, den) == num \div den

RECURSIVE SumTo(_, _, _)
\* sum of f[i] for i in lo..hi
SumTo(f, lo, hi) == IF lo > hi THEN 0 ELSE f[lo] + SumTo(f, lo + 1, hi)

RECURSIVE FracLeq(_, _, _, _)
\* a/b <= c/d for a, c >= 0 and b, d > 0, without forming the products a*d and c*b
FracLeq(a, b, c, d) ==
    LET qa == a \div b
        qc == c \div d
        ra == a % b
        rc == c % d
    IN  IF qa # qc THEN qa < qc
        ELSE IF ra = 0 THEN TRUE
        ELSE IF rc = 0 THEN FALSE
        ELSE FracLeq(d, rc, b, ra)

RECURSIVE FloorQuotSqrt(_, _, _, _)
\* the largest r in lo..hi with r <= x / sqrt(y), for x >= 0, y > 0 (r = lo if none is)
FloorQuotSqrt(x, y, lo, hi) ==
    IF lo >= hi THEN lo
    ELSE LET mid == (lo + hi + 1) \div 2
         IN  IF FracLeq(mid, x, x, mid * y)
             THEN FloorQuotSqrt(x, y, mid, hi)
             ELSE FloorQuotSqrt(x, y, lo, mid - 1)

----------------------------------------------------------------------------
(* NumericKernel. *)

\* len(time_series[d]) and the number of channels
SeriesLen(ts2d) == Cardinality(DOMAIN ts2d[0])
Dims(ts2d) == Cardinality(DOMAIN ts2d)

\* halve_m = int(m * slack)
HalveM(m_, slack_) == FloorDiv(m_ * slack_[1], slack_[2])

\* _sliding_dot_product(query, time_series): y[i] = sum_t query[t] * time_series[i + t],
\* for the query ts[q0 : q0 + m_]
_sliding_dot_product(ts, q0, m_) ==
    LET n_ == Cardinality(DOMAIN ts) - m_ + 1
    IN  [i \in 0..(n_ - 1) |->
            SumTo([t \in 0..(m_ - 1) |-> ts[q0 + t] * ts[i + t]], 0, m_ - 1)]

\* _sliding_mean_std(ts, m): per window, segSum (= m * movmean) and the squared
\* standard deviation times m^2, with the policy "std < 0.1 becomes 1"
_sliding_mean_std(ts, m_) ==
    LET n_ == Cardinality(DOMAIN ts) - m_ + 1
        segSum == [i \in 0..(n_ - 1) |-> SumTo([t \in 0..(m_ - 1) |-> ts[i + t]], 0, m_ - 1)]
        segSumSq == [i \in 0..(n_ - 1) |->
                        SumTo([t \in 0..(m_ - 1) |-> ts[i + t] * ts[i + t]], 0, m_ - 1)]
        var == [i \in 0..(n_ - 1) |-> Max(m_ * segSumSq[i] - segSum[i] * segSum[i], 0)]
    IN  [means |-> segSum,
         stds  |-> [i \in 0..(n_ - 1) |-> IF 100 * var[i] < m_ * m_ THEN m_ * m_ ELSE var[i]]]

\* the z-normalised squared distance 2m(1 - (dot - m mu_j mu_o) / (m sigma_j sigma_o))
ZNormDist(dot, m_, means, stds, j, order) ==
    LET a == m_ * dot - means[j] * means[order]
        y == stds[j] * stds[order]
        r == IF a = 0 THEN 0 ELSE FloorQuotSqrt(2 * m_ * Scale * Abs(a), y, 0, 2 * m_ * Scale)
    IN  IF a >= 0 THEN 2 * m_ * Scale - r ELSE 2 * m_ * Scale + r

\* distance without its last assignment "dist[order] = 0": the offset itself stays
\* inside the exclusion zone
distance_no_self(dot_rolled, n_, m_, means, stds, order, halve_m) ==
    LET lo == Max(0, order - halve_m)
        hi == Min(order + halve_m, n_)
    IN  [j \in 0..(n_ - 1) |->
            IF lo <= j /\ j < hi THEN Inf
            ELSE ZNormDist(dot_rolled[j], m_, means, stds, j, order)]

\* distance with "dist[order] = 0" placed before the exclusion zone is written
distance_zero_first(dot_rolled, n_, m_, means, stds, order, halve_m) ==
    LET lo == Max(0, order - halve_m)
        hi == Min(order + halve_m, n_)
    IN  [j \in 0..(n_ - 1) |->
            IF lo <= j /\ j < hi THEN Inf
            ELSE IF j = order THEN 0
            ELSE ZNormDist(dot_rolled[j], m_, means, stds, j, order)]

\* distance with the exclusion zone closed at its right end: [order - halve_m, order + halve_m]
distance_closed_zone(dot_rolled, n_, m_, means, stds, order, halve_m) ==
    LET lo == Max(0, order - halve_m)
        hi == Min(order + halve_m + 1, n_)
    IN  [j \in 0..(n_ - 1) |->
            IF j = order THEN 0
            ELSE IF lo <= j /\ j < hi THEN Inf
            ELSE ZNormDist(dot_rolled[j], m_, means, stds, j, order)]

\* distance(dot_rolled, n, m, means, stds, order, halve_m): one row of D
distance(dot_rolled, n_, m_, means, stds, order, halve_m) ==
    LET lo == Max(0, order - halve_m)
        hi == Min(order + halve_m, n_)
    IN  [j \in 0..(n_ - 1) |->
            IF j = order THEN 0
            ELSE IF lo <= j /\ j < hi THEN Inf
            ELSE ZNormDist(dot_rolled[j], m_, means, stds, j, order)]

\* the O(1) update without "dot_rolled[0] = dot_first[order]": entry 0 keeps the value
\* np.roll wrapped around
RollDotWrapped(ts, dot_prv, dot_first, order, n_, m_) ==
    [i \in 0..(n_ - 1) |->
        dot_prv[(i - 1) % n_]
        + ts[order + m_ - 1] * ts[m_ - 1 + i]
        - ts[order - 1] * ts[(i - 1) % n_]]

\* the O(1) update of the dot products from the previous offset of the bin
RollDot(ts, dot_prv, dot_first, order, n_, m_) ==
    [i \in 0..(n_ - 1) |->
        IF i = 0 THEN dot_first[order]
        ELSE dot_prv[(i - 1) % n_]
             + ts[order + m_ - 1] * ts[m_ - 1 + i]
             - ts[order - 1] * ts[(i - 1) % n_]]

----------------------------------------------------------------------------
(* Non-overlapping k-NN selection. *)

\* key order of the partial selection: by distance, equal distances by index in the
\* order tie_ names (np.argpartition leaves the order of equal keys open)
KeyBefore(dist, tie_, a, b) ==
    \/ dist[a] < dist[b]
    \/ dist[a] = dist[b] /\ (IF tie_ = "low" THEN a < b ELSE a > b)

RECURSIVE SortByKey(_, _, _)
\* the indices of S as a sequence in key order
SortByKey(dist, tie_, S) ==
    IF S = {} THEN <<>>
    ELSE LET x == CHOOSE a \in S : \A b \in S \ {a} : KeyBefore(dist, tie_, a, b)
         IN  <<x>> \o SortByKey(dist, tie_, S \ {x})

\* dist_pos = np.argpartition(dist, 2 * k)[:2 * k]
ArgPartition(dist, kth, tie_) == SubSeq(SortByKey(dist, tie_, DOMAIN dist), 1, kth)

\* np.argmax in the place of np.argmin: the first position holding the maximum
ArgMaxSeq(sq) == CHOOSE p \in 1..Len(sq) :
                    /\ \A q \in 1..Len(sq) : sq[p] >= sq[q]
                    /\ \A q \in 1..(p - 1) : sq[q] < sq[p]

\* np.argmin over a sequence: the first position holding the minimum
ArgMinSeq(sq) == CHOOSE p \in 1..Len(sq) :
                    /\ \A q \in 1..Len(sq) : sq[p] <= sq[q]
                    /\ \A q \in 1..(p - 1) : sq[q] > sq[p]

\* np.argmin over an array: the first index holding the minimum
ArgMin(f) == CHOOSE p \in DOMAIN f :
                /\ \A q \in DOMAIN f : f[p] <= f[q]
                /\ \A q \in DOMAIN f : q < p => f[q] > f[p]

\* the zone with its right end included: dists[max(0, pos - halve_m) : pos + halve_m + 1]
BlackenClosed(dists, pos, halve_m) ==
    LET lo == Max(0, pos - halve_m)
        hi == Min(pos + halve_m + 1, Cardinality(DOMAIN dists))
    IN  [j \in DOMAIN dists |-> IF lo <= j /\ j < hi THEN Inf ELSE dists[j]]

\* dists[max(0, pos - halve_m) : min(pos + halve_m, len(dists))] = np.inf
Blacken(dists, pos, halve_m) ==
    LET lo == Max(0, pos - halve_m)
        hi == Min(pos + halve_m, Cardinality(DOMAIN dists))
    IN  [j \in DOMAIN dists |-> IF lo <= j /\ j < hi THEN Inf ELSE dists[j]]

\* the test of both loops: not NaN, not infinite, within lowest_dist (= np.inf)
Admissible(dists, pos) == dists[pos] # Inf /\ dists[pos] <= Inf

RECURSIVE ArgKnnPool(_, _, _, _, _, _, _)
\* "go through the partitioned list": iteration i of len(dist_sort)
ArgKnnPool(i, dist_pos, dist_sort, dists, idx, k_, halve_m) ==
    IF i > Len(dist_sort) THEN [dists |-> dists, idx |-> idx]
    ELSE LET p == ArgMinSeq(dist_sort)
             pos == dist_pos[p]
             sorted2 == [dist_sort EXCEPT ![p] = Inf]
             take == Admissible(dists, pos)
             idx2 == IF take THEN Append(idx, pos) ELSE idx
             dists2 == IF take THEN Blacken(dists, pos, halve_m) ELSE dists
         IN  IF Len(idx2) = k_ THEN [dists |-> dists2, idx |-> idx2]
             ELSE ArgKnnPool(i + 1, dist_pos, sorted2, dists2, idx2, k_, halve_m)

RECURSIVE ArgKnnRest(_, _, _, _)
\* "if not enough elements found, go through the rest"
ArgKnnRest(dists, idx, k_, halve_m) ==
    IF Len(idx) >= k_ THEN idx
    ELSE LET pos == ArgMin(dists)
         IN  IF Admissible(dists, pos)
             THEN ArgKnnRest(Blacken(dists, pos, halve_m), Append(idx, pos), k_, halve_m)
             ELSE idx

\* np.argpartition raises "kth out of bounds" unless 2 * k < len(dist)
ArgKnnRaises(n_, k_) == 2 * k_ >= n_

\* _argknn(dist, k, m, slack=slack): the sequence idx
_argknn(dist, k_, m_, slack_, tie_) ==
    LET halve_m == HalveM(m_, slack_)
        dist_pos == ArgPartition(dist, 2 * k_, tie_)
        dist_sort == [p \in 1..Len(dist_pos) |-> dist[dist_pos[p]]]
        pool == ArgKnnPool(1, dist_pos, dist_sort, dist, <<>>, k_, halve_m)
    IN  ArgKnnRest(pool.dists, pool.idx, k_, halve_m)

\* knns[d, order, :len(knn)] = knn; knns[d, order, len(knn):] = -1
KnnRow(knn, k_) == [p \in 0..(k_ - 1) |-> IF p < Len(knn) THEN knn[p + 1] ELSE -1]

----------------------------------------------------------------------------
(* compute_distance_matrix: the parallel bins. *)

\* n = time_series.shape[-1] - m + 1
NSub == SeriesLen(time_series) - m + 1

\* D_all.shape[0]: one summed channel, or one per input channel
DChannels == IF sum_dims THEN 1 ELSE Dims(time_series)

\* bin_size = time_series.shape[-1] // n_jobs
bin_size == SeriesLen(time_series) \div n_jobs

\* start = idx * bin_size
BinStart(idx) == idx * bin_size

\* mutant: the bin's range runs one offset into the next bin's
BinEndOverlapping(idx) == Min((idx + 1) * (SeriesLen(time_series) \div n_jobs) + 1,
                              SeriesLen(time_series) - m + 1)

\* end = min((idx + 1) * bin_size, time_series.shape[-1] - m + 1)
BinEnd(idx) == Min((idx + 1) * bin_size, NSub)

Bins == 0..(n_jobs - 1)

\* np.zeros((., n, n)) and np.zeros((., n, k))
ZeroD == [c \in 0..(DChannels - 1) |-> [o \in 0..(NSub - 1) |-> [j \in 0..(NSub - 1) |-> 0]]]
ZeroKnns == [c \in 0..(DChannels - 1) |-> [o \in 0..(NSub - 1) |-> [p \in 0..(k - 1) |-> 0]]]

BinDone == [phase |-> "done", d |-> 0, order |-> 0]

\* where bin idx stands before its first step
FirstPos(idx) ==
    IF BinStart(idx) < BinEnd(idx)
    THEN [phase |-> "dist", d |-> 0, order |-> BinStart(idx)]
    ELSE BinDone

\* the loop headers "for d ...: for order in np.arange(start, end)" of both loops
NextPos(idx, pos) ==
    IF pos.order + 1 < BinEnd(idx) THEN [pos EXCEPT !.order = pos.order + 1]
    ELSE IF pos.phase = "dist" /\ pos.d + 1 < Dims(time_series)
         THEN [pos EXCEPT !.d = pos.d + 1, !.order = BinStart(idx)]
    ELSE IF pos.phase = "dist"
         THEN [phase |-> "knn", d |-> 0, order |-> BinStart(idx)]
    ELSE IF pos.d + 1 < DChannels
         THEN [pos EXCEPT !.d = pos.d + 1, !.order = BinStart(idx)]
    ELSE BinDone

\* dot_rolled of one (d, order): the FFT at the bin's start, the roll after it
DotRolled(idx, d, order, dot_prv) ==
    LET ts == time_series[d]
        dot_first == _sliding_dot_product(ts, 0, m)
    IN  IF order = BinStart(idx)
        THEN _sliding_dot_product(ts, BinStart(idx), m)
        ELSE RollDot(ts, dot_prv, dot_first, order, NSub, m)

\* dist = distance(dot_rolled, n, m, means, stds, order, halve_m)
DistOf(d, order, dot_rolled) ==
    LET ms == _sliding_mean_std(time_series[d], m)
    IN  distance(dot_rolled, NSub, m, ms.means, ms.stds, order, HalveM(m, slack))

\* row + dist with np.inf absorbing
RowAdd(row, dist) ==
    [j \in DOMAIN row |-> IF row[j] = Inf \/ dist[j] = Inf THEN Inf ELSE row[j] + dist[j]]

\* D_all[0, order] += dist   or   D_all[d, order] = dist
WriteDist(D, d, order, dist) ==
    IF sum_dims
    THEN [D EXCEPT ![0][order] = RowAdd(@, dist)]
    ELSE [D EXCEPT ![d][order] = dist]

\* knns[d, order] after knn = _argknn(D_all[d, order], k, m, slack=slack)
WriteKnn(D, K, d, order) ==
    [K EXCEPT ![d][order] = KnnRow(_argknn(D[d][order], k, m, slack, tie), k)]

\* one iteration of the first loop of bin idx
BinDist(idx) ==
    /\ status = "building"
    /\ bin[idx].phase = "dist"
    /\ LET d == bin[idx].d
           order == bin[idx].order
           dot_rolled == DotRolled(idx, d, order, dot_prev[idx])
       IN  /\ D_all' = WriteDist(D_all, d, order, DistOf(d, order, dot_rolled))
           /\ dot_prev' = [dot_prev EXCEPT ![idx] = dot_rolled]
           /\ wrote' = wrote \cup {<<"D", IF sum_dims THEN 0 ELSE d, order, idx>>}
    /\ bin' = [bin EXCEPT ![idx] = NextPos(idx, @)]
    /\ UNCHANGED <<time_series, m, k, slack, sum_dims, tie, knns, status>>
    /\ UNCHANGED sweepVars

\* one iteration of the second loop of bin idx
BinKnn(idx) ==
    /\ status = "building"
    /\ bin[idx].phase = "knn"
    /\ ~ArgKnnRaises(NSub, k)
    /\ knns' = WriteKnn(D_all, knns, bin[idx].d, bin[idx].order)
    /\ wrote' = wrote \cup {<<"knns", bin[idx].d, bin[idx].order, idx>>}
    /\ bin' = [bin EXCEPT ![idx] = NextPos(idx, @)]
    /\ UNCHANGED <<time_series, m, k, slack, sum_dims, tie, D_all, dot_prev, status>>
    /\ UNCHANGED sweepVars

\* _argknn raises in bin idx: the call fails
BinRaise(idx) ==
    /\ status = "building"
    /\ bin[idx].phase = "knn"
    /\ ArgKnnRaises(NSub, k)
    /\ status' = "error"
    /\ UNCHANGED <<time_series, m, k, slack, sum_dims, tie, D_all, knns, bin, dot_prev, wrote>>
    /\ UNCHANGED sweepVars

\* return D_all, knns: every bin has finished
BuildReturn ==
    /\ status = "building"
    /\ \A idx \in Bins : bin[idx].phase = "done"
    /\ status' = "returned"
    /\ UNCHANGED <<time_series, m, k, slack, sum_dims, tie, D_all, knns, bin, dot_prev, wrote>>
    /\ UNCHANGED sweepVars

\* the arguments of the direct calls of compute_distance_matrix
Slacks == {<<1, 2>>, <<4, 5>>}
BuildConfigs ==
    { [chans |-> <<1>>,    k |-> MaxK, slack |-> <<1, 2>>, sum_dims |-> FALSE, tie |-> "low"],
      [chans |-> <<2>>,    k |-> MaxK, slack |-> <<4, 5>>, sum_dims |-> FALSE, tie |-> "high"],
      [chans |-> <<3>>,    k |-> 1,    slack |-> <<1, 2>>, sum_dims |-> TRUE,  tie |-> "low"],
      [chans |-> <<1, 2>>, k |-> MaxK, slack |-> <<1, 2>>, sum_dims |-> TRUE,  tie |-> "high"],
      [chans |-> <<1, 3>>, k |-> MaxK, slack |-> <<4, 5>>, sum_dims |-> FALSE, tie |-> "low"] }

\* A second series (d = 3, n = 14) of small integers, in which many windows repeat
\* up to scale and offset.
arr_b ==
    << <<4,4,2,4,3,2,3,4,2,1,2,2,4,3>>,
       <<3,2,3,3,2,2,4,2,1,1,1,3,1,2>>,
       <<4,4,1,3,2,4,4,1,3,3,1,4,3,1>> >>

\* the first n samples of the channels chans of data
SeriesOf(data, chans, n_) ==
    [c \in 0..(Len(chans) - 1) |-> [t \in 0..(n_ - 1) |-> data[chans[c + 1]][t + 1]]]

\* the first n samples of the channels chans of arr
Series(chans, n_) == [c \in 0..(Len(chans) - 1) |-> [t \in 0..(n_ - 1) |-> arr[chans[c + 1]][t + 1]]]

InitBuild ==
    /\ \E n_ \in MinLen..MaxLen, cfg \in BuildConfigs :
          /\ time_series = Series(cfg.chans, n_)
          /\ m \in 2..(n_ - 1)
          /\ k = cfg.k
          /\ slack = cfg.slack
          /\ sum_dims = cfg.sum_dims
          /\ tie = cfg.tie
    /\ D_all = ZeroD
    /\ knns = ZeroKnns
    /\ bin = [idx \in Bins |-> FirstPos(idx)]
    /\ dot_prev = [idx \in Bins |-> <<>>]
    /\ wrote = {}
    /\ status = "building"
    /\ k_max = 0
    /\ n_dims = 0
    /\ filter = FALSE
    /\ test_k = 0
    /\ upper_bound = Inf
    /\ k_motiflet_distances = <<>>
    /\ k_motiflet_candidates = <<>>
    /\ k_motiflet_dims = <<>>
    /\ elbow_points = <<>>
    /\ cur_dims = 0
    /\ au_ef = None

NextBuild ==
    \/ \E idx \in Bins : BinDist(idx)
    \/ \E idx \in Bins : BinKnn(idx)
    \/ \E idx \in Bins : BinRaise(idx)
    \/ BuildReturn

SpecBuild == InitBuild /\ [][NextBuild]_vars

----------------------------------------------------------------------------
(* compute_distance_matrix as one call: the bins one after the other. *)

RECURSIVE RunBin(_, _, _)
\* bin idx run from pos to its end on the arrays st
RunBin(st, idx, pos) ==
    IF pos.phase = "done" \/ st.err THEN st
    ELSE IF pos.phase = "dist"
    THEN LET dot_rolled == DotRolled(idx, pos.d, pos.order, st.dot)
         IN  RunBin([st EXCEPT !.D = WriteDist(@, pos.d, pos.order,
                                               DistOf(pos.d, pos.order, dot_rolled)),
                               !.dot = dot_rolled],
                    idx, NextPos(idx, pos))
    ELSE IF ArgKnnRaises(NSub, k) THEN [st EXCEPT !.err = TRUE]
    ELSE RunBin([st EXCEPT !.K = WriteKnn(st.D, @, pos.d, pos.order)], idx, NextPos(idx, pos))

RECURSIVE RunBins(_, _)
RunBins(st, idx) ==
    IF idx = n_jobs THEN st ELSE RunBins(RunBin(st, idx, FirstPos(idx)), idx + 1)

\* D_all, knns = compute_distance_matrix(time_series, m, k, slack=slack, sum_dims=sum_dims)
compute_distance_matrix ==
    RunBins([D |-> ZeroD, K |-> ZeroKnns, dot |-> <<>>, err |-> FALSE], 0)

----------------------------------------------------------------------------
(* Properties of the build (SpecBuild). *)

Returned == status = "returned"
Offsets == 0..(NSub - 1)
Channels == 0..(DChannels - 1)
\* the offsets some bin's range holds
Covered == {o \in Offsets : \E idx \in Bins : BinStart(idx) <= o /\ o < BinEnd(idx)}

\* C1: after compute_distance_matrix returns, the non-padding entries of every k-NN
\* list knns[c, i, .] are pairwise at least floor(m * slack) apart.
C1_KnnNonOverlapping ==
    Returned =>
        \A c \in Channels, i \in Offsets : \A p, q \in 0..(k - 1) :
            (p # q /\ knns[c][i][p] # -1 /\ knns[c][i][q] # -1)
                => Abs(knns[c][i][p] - knns[c][i][q]) >= HalveM(m, slack)

\* C2: after compute_distance_matrix returns, D[c, i, j] is +infinity for all offsets
\* i # j that are less than floor(m * slack) apart.
C2_ExclusionBandInfinite ==
    Returned =>
        \A c \in Channels, i \in Offsets, j \in Offsets :
            (i # j /\ Abs(i - j) < HalveM(m, slack)) => D_all[c][i][j] = Inf

\* C3: after compute_distance_matrix returns, D is symmetric on every channel,
\* the +infinity entries of the exclusion band included.
C3_Symmetric ==
    Returned =>
        \A c \in Channels, i \in Offsets, j \in Offsets : D_all[c][i][j] = D_all[c][j][i]

\* C4: after compute_distance_matrix returns, every offset in [0..N) had its D row
\* and its k-NN row written by some bin.
C4_EveryRowWritten ==
    Returned =>
        \A c \in Channels, o \in Offsets :
            /\ \E idx \in Bins : <<"D", c, o, idx>> \in wrote
            /\ \E idx \in Bins : <<"knns", c, o, idx>> \in wrote

\* C5: no row of D or knns is written by two bins, a bin's k-NN step reads a D row
\* that this bin alone wrote, and the result of every interleaving of the bins is
\* the result of running the bins one after the other.
C5_BinsIndependent ==
    /\ \A w1 \in wrote, w2 \in wrote :
          (w1[1] = w2[1] /\ w1[2] = w2[2] /\ w1[3] = w2[3]) => w1[4] = w2[4]
    /\ \A idx \in Bins :
          bin[idx].phase = "knn" =>
              /\ <<"D", bin[idx].d, bin[idx].order, idx>> \in wrote
              /\ \A j \in Bins : <<"D", bin[idx].d, bin[idx].order, j>> \in wrote => j = idx
    /\ Returned =>
          /\ D_all = compute_distance_matrix.D
          /\ knns = compute_distance_matrix.K

\* C5 witness: a returned build in which two bins wrote rows of both arrays
C5_Witness ==
    /\ Returned
    /\ \E w1 \in wrote, w2 \in wrote : w1[1] = "D" /\ w2[1] = "D" /\ w1[4] # w2[4]
    /\ \E w1 \in wrote, w2 \in wrote : w1[1] = "knns" /\ w2[1] = "knns" /\ w1[4] # w2[4]
    /\ Dims(time_series) > 1

----------------------------------------------------------------------------
(* DimensionSelector and MotifletSearch. *)

\* D[dims, i, j].mean()
MeanOver(D, dims, i, j) ==
    IF \E q \in DOMAIN dims : D[dims[q]][i][j] = Inf THEN Inf
    ELSE SumTo([q \in DOMAIN dims |-> D[dims[q]][i][j]], 0, Cardinality(DOMAIN dims) - 1)
            \div Cardinality(DOMAIN dims)

RECURSIVE PairwiseLoop(_, _, _, _, _, _)
\* the loops over ii < jj of get_pairwise_extent, from the pair (ii, jj) on
PairwiseLoop(D, pos, dims, upperbound, pair, motifset_extent) ==
    LET len == Cardinality(DOMAIN pos)
        ii == pair[1]
        jj == pair[2]
    IN  IF ii >= len - 1 THEN motifset_extent
        ELSE IF jj >= len
        THEN PairwiseLoop(D, pos, dims, upperbound, <<ii + 1, ii + 2>>, motifset_extent)
        ELSE LET e == Max(motifset_extent, MeanOver(D, dims, pos[ii], pos[jj]))
             IN  IF e > upperbound THEN Inf
                 ELSE PairwiseLoop(D, pos, dims, upperbound, <<ii, jj + 1>>, e)

\* mutant: only the pairs that hold the first position are compared
get_pairwise_extent_first(D, pos, dims, upperbound) ==
    IF \E p \in DOMAIN pos : pos[p] = -1 THEN Inf
    ELSE LET far == CHOOSE p \in DOMAIN pos : \A q \in DOMAIN pos :
                        MeanOver(D, dims, pos[0], pos[q]) <= MeanOver(D, dims, pos[0], pos[p])
             e == IF far = 0 THEN 0 ELSE MeanOver(D, dims, pos[0], pos[far])
         IN  IF e > upperbound THEN Inf ELSE e

\* get_pairwise_extent(D_full, motifset_pos, dims, upperbound)
get_pairwise_extent(D, pos, dims, upperbound) ==
    IF \E p \in DOMAIN pos : pos[p] = -1 THEN Inf
    ELSE PairwiseLoop(D, pos, dims, upperbound, <<0, 1>>, 0)

\* np.fill_diagonal(D[d], 0) for every d
FillDiagonal(D) ==
    [c \in DOMAIN D |-> [i \in DOMAIN D[c] |-> [j \in DOMAIN D[c][i] |->
        IF i = j THEN 0 ELSE D[c][i][j]]]]

\* mutant: the neighbour before the k-th is looked up (knns[:, :, k - 2])
LastKnnDistanceOffByOne(D, K, kk, c, i) ==
    LET j == K[c][i][kk - 2]
    IN  D[c][i][IF j < 0 THEN Cardinality(DOMAIN D[c][i]) + j ELSE j]

\* np.take_along_axis(D_full, last_knns[:, :, None], axis=2): index -1 is the last entry
LastKnnDistance(D, K, kk, c, i) ==
    LET j == K[c][i][kk - 1]
    IN  D[c][i][IF j < 0 THEN Cardinality(DOMAIN D[c][i]) + j ELSE j]

RECURSIVE ArgSortChannels(_, _)
\* np.argsort over the channel axis (the sort of a short lane keeps equal keys in order)
ArgSortChannels(key, S) ==
    IF S = {} THEN <<>>
    ELSE LET c == CHOOSE a \in S : \A b \in S \ {a} :
                     key[a] < key[b] \/ (key[a] = key[b] /\ a < b)
         IN  <<c>> \o ArgSortChannels(key, S \ {c})

\* compute_relevant_dimensions(D_full, knns, k, use_dim): best_dims[i][q]
compute_relevant_dimensions(D, K, kk, use_dim) ==
    [i \in DOMAIN D[0] |->
        LET key == [c \in DOMAIN D |-> LastKnnDistance(D, K, kk, c, i)]
            sorted == ArgSortChannels(key, DOMAIN D)
        IN  [q \in 0..(use_dim - 1) |-> sorted[q + 1]]]

\* mutant: every evaluated candidate is stored
AcceptsAlways(motiflet_extent, motiflet_dist) == TRUE

\* if motiflet_extent <= motiflet_dist
Accepts(motiflet_extent, motiflet_dist) == motiflet_extent <= motiflet_dist

\* knn_idx[:k]
Prefix(knn_idx, kk) == [p \in 0..(kk - 1) |-> knn_idx[p]]

\* the body with "dims = [d]" in the place of "dims = best_dims[order]"
ApproxBodyOwnDim(D, K, best_dims, kk, order, d, st) ==
    LET dims == [x \in 0..0 |-> d]
        knn_idx == K[d][order]
    IN  IF Cardinality(DOMAIN knn_idx) >= kk /\ knn_idx[kk - 1] >= 0
           /\ MeanOver(D, dims, order, knn_idx[kk - 1]) <= st.dist
        THEN LET motiflet_extent ==
                     get_pairwise_extent(D, Prefix(knn_idx, kk), dims, st.dist)
             IN  IF Accepts(motiflet_extent, st.dist)
                 THEN [candidate |-> Prefix(knn_idx, kk), dist |-> motiflet_extent,
                       dims |-> dims]
                 ELSE st
        ELSE st

\* the body of "for d in best_dims[order]" in get_approximate_k_motiflet
ApproxBody(D, K, best_dims, kk, order, d, st) ==
    LET dims == best_dims[order]
        knn_idx == K[d][order]
    IN  IF Cardinality(DOMAIN knn_idx) >= kk /\ knn_idx[kk - 1] >= 0
           /\ MeanOver(D, dims, order, knn_idx[kk - 1]) <= st.dist
        THEN LET motiflet_extent ==
                     get_pairwise_extent(D, Prefix(knn_idx, kk), dims, st.dist)
             IN  IF Accepts(motiflet_extent, st.dist)
                 THEN [candidate |-> Prefix(knn_idx, kk), dist |-> motiflet_extent,
                       dims |-> dims]
                 ELSE st
        ELSE st

RECURSIVE ApproxLoop(_, _, _, _, _, _, _)
\* "for order in np.arange(n): for d in best_dims[order]", from (order, q) on
ApproxLoop(D, K, best_dims, kk, order, q, st) ==
    IF order >= Cardinality(DOMAIN D[0]) THEN st
    ELSE IF q >= Cardinality(DOMAIN best_dims[order])
    THEN ApproxLoop(D, K, best_dims, kk, order + 1, 0, st)
    ELSE ApproxLoop(D, K, best_dims, kk, order, q + 1,
                    ApproxBody(D, K, best_dims, kk, order, best_dims[order][q], st))

\* mutant: the search starts from +inf instead of the bound it is handed
get_approximate_k_motiflet_unbounded(D, K, best_dims, kk, upper_bound_) ==
    ApproxLoop(FillDiagonal(D), K, best_dims, kk, 0, 0,
               [candidate |-> None, dist |-> Inf, dims |-> None])

\* get_approximate_k_motiflet(ts, m, k, D, knns, best_dims, upper_bound), on the
\* matrix after its np.fill_diagonal
get_approximate_k_motiflet(D, K, best_dims, kk, upper_bound_) ==
    ApproxLoop(FillDiagonal(D), K, best_dims, kk, 0, 0,
               [candidate |-> None, dist |-> upper_bound_, dims |-> None])

----------------------------------------------------------------------------
(* ElbowAnalyzer. *)

\* a <= b for fractions <<numerator, denominator>> with positive denominators
RatLeq(a, b) ==
    IF a[1] < 0 /\ b[1] >= 0 THEN TRUE
    ELSE IF a[1] >= 0 /\ b[1] < 0 THEN FALSE
    ELSE IF a[1] >= 0 THEN FracLeq(a[1], a[2], b[1], b[2])
    ELSE FracLeq(-b[1], b[2], -a[1], a[2])

\* num / den with the sign in the numerator
Rat(num, den) == IF den < 0 THEN <<-num, -den>> ELSE <<num, den>>

\* peaks[i] of find_elbow_points; m1 and m2 are in units of 1 / (Scale * EpsInv)
PeakAt(dists, i) ==
    IF dists[i] # Inf /\ dists[i + 1] # Inf /\ dists[i - 1] # Inf
    THEN LET m1 == (dists[i + 1] - dists[i]) * EpsInv + Scale
             m2 == IF dists[i - 1] = dists[i] THEN Scale * EpsInv
                   ELSE (dists[i] - dists[i - 1]) * EpsInv + Scale
         IN  IF dists[i] > 0
                /\ dists[i + 1] * elbow_deviation[2] > dists[i] * elbow_deviation[1]
             THEN Rat(m1, m2)
             ELSE <<0, 1>>
    ELSE <<0, 1>>

\* peaks = np.zeros(len(dists)); for i in range(3, len(peaks) - 1): ...
Peaks(dists) ==
    LET len == Cardinality(DOMAIN dists)
    IN  [i \in 0..(len - 1) |-> IF 3 <= i /\ i < len - 1 THEN PeakAt(dists, i) ELSE <<0, 1>>]

\* np.argmax(peaks): the first index holding the maximum
ArgMaxPeak(peaks) ==
    CHOOSE p \in DOMAIN peaks :
        /\ \A q \in DOMAIN peaks : RatLeq(peaks[q], peaks[p])
        /\ \A q \in DOMAIN peaks : q < p => ~RatLeq(peaks[p], peaks[q])

\* peaks[p] > alpha
AboveAlpha(peak) == peak[1] > alpha * peak[2]

RECURSIVE ExtractPeaksOnly(_, _)
\* the extraction with "peaks[p] = 0" in the place of "peaks[p - 1:p + 2] = 0"
ExtractPeaksOnly(peaks, found) ==
    LET p == ArgMaxPeak(peaks)
    IN  IF AboveAlpha(peaks[p])
        THEN ExtractPeaksOnly([i \in DOMAIN peaks |-> IF i = p THEN <<0, 1>> ELSE peaks[i]],
                              found \cup {p})
        ELSE found

RECURSIVE ExtractPeaks(_, _)
\* "while True: p = np.argmax(peaks) ..."
ExtractPeaks(peaks, found) ==
    LET p == ArgMaxPeak(peaks)
    IN  IF AboveAlpha(peaks[p])
        THEN ExtractPeaks([i \in DOMAIN peaks |->
                              IF p - 1 <= i /\ i < p + 2 THEN <<0, 1>> ELSE peaks[i]],
                          found \cup {p})
        ELSE found

RECURSIVE SortedSeq(_)
\* np.sort(np.array(list(set(.))))
SortedSeq(S) ==
    IF S = {} THEN <<>>
    ELSE LET x == CHOOSE a \in S : \A b \in S : a <= b
         IN  <<x>> \o SortedSeq(S \ {x})

\* mutant: 2 is kept in the set as a seed beside the peaks found
find_elbow_points_seeded(dists) ==
    SortedSeq({2} \cup ExtractPeaks(Peaks(dists), {}))

\* find_elbow_points(dists, elbow_deviation=elbow_deviation)
find_elbow_points(dists) ==
    LET found == ExtractPeaks(Peaks(dists), {})
    IN  SortedSeq(IF found = {} THEN {2} ELSE found)

----------------------------------------------------------------------------
(* OverlapFilter. *)

RECURSIVE CheckUniqueLoop(_, _, _, _, _)
\* "for a in motifset_1" of _check_unique, from position ia on
CheckUniqueLoop(motifset_1, motifset_2, motif_length, ia, count) ==
    IF ia >= Cardinality(DOMAIN motifset_1) THEN TRUE
    ELSE LET a == motifset_1[ia]
             hit == \E ib \in DOMAIN motifset_2 : 4 * Abs(a - motifset_2[ib]) < motif_length
             count2 == IF hit THEN count + 1 ELSE count
         IN  IF 2 * count2 >= Cardinality(DOMAIN motifset_1) THEN FALSE
             ELSE CheckUniqueLoop(motifset_1, motifset_2, motif_length, ia + 1, count2)

\* mutant: positions exactly motif_length / 4 apart count as overlapping
_check_unique_inclusive(motifset_1, motifset_2, motif_length) ==
    LET hits == {ia \in DOMAIN motifset_1 : \E ib \in DOMAIN motifset_2 :
                     4 * Abs(motifset_1[ia] - motifset_2[ib]) <= motif_length}
    IN  ~(motifset_1 # <<>> /\ 2 * Cardinality(hits) >= Cardinality(DOMAIN motifset_1))

\* _check_unique(motifset_1, motifset_2, motif_length)
_check_unique(motifset_1, motifset_2, motif_length) ==
    CheckUniqueLoop(motifset_1, motifset_2, motif_length, 0, 0)

RECURSIVE UniqueAgainst(_, _, _, _, _)
\* the loop "for j in range(i + 1, len(elbow_points))" of _filter_unique: its unique
UniqueAgainst(elbows, candidates, motif_length, i, j) ==
    IF j > Len(elbows) THEN TRUE
    ELSE IF candidates[elbows[i]] # None /\ candidates[elbows[j]] # None
            /\ ~_check_unique(candidates[elbows[i]], candidates[elbows[j]], motif_length)
    THEN FALSE
    ELSE UniqueAgainst(elbows, candidates, motif_length, i, j + 1)

RECURSIVE FilterLoop(_, _, _, _)
FilterLoop(elbows, candidates, motif_length, i) ==
    IF i > Len(elbows) THEN <<>>
    ELSE (IF UniqueAgainst(elbows, candidates, motif_length, i, i + 1)
          THEN <<elbows[i]>> ELSE <<>>)
         \o FilterLoop(elbows, candidates, motif_length, i + 1)

\* mutant: the inner loop starts at i instead of i + 1
_filter_unique_from_i(elbows, candidates, motif_length) ==
    SortedSeq({elbows[i] : i \in {i \in 1..Len(elbows) :
                  UniqueAgainst(elbows, candidates, motif_length, i, i)}})

\* _filter_unique(elbow_points, candidates, motif_length)
_filter_unique(elbows, candidates, motif_length) ==
    FilterLoop(elbows, candidates, motif_length, 1)

----------------------------------------------------------------------------
(* search_k_motiflets_elbow: the k-sweep. *)

\* max(3, min(int(n // (m * slack)), k_max))
KMaxPrime(n_, m_, slack_, k_max_user) ==
    Max(3, Min(FloorDiv(n_ * slack_[2], m_ * slack_[1]), k_max_user))

\* use_dim = min(n_dims, D_full.shape[0]), after "n_dims = d if n_dims is None else n_dims"
UseDim == Min(IF n_dims = 0 THEN Dims(time_series) ELSE n_dims, DChannels)

\* upper_bound = min(candidate_dist, upper_bound), and with a candidate
\* min(upper_bound, get_pairwise_extent(D_full, candidate[:test_k], candidate_dims))
NextUpperBound(D, res, kk, ub) ==
    LET ub1 == Min(res.dist, ub)
    IN  IF res.candidate # None
        THEN Min(ub1, get_pairwise_extent(D, Prefix(res.candidate, kk), res.dims, Inf))
        ELSE ub1

\* range(a, b)
PyRange(a, b) == a..(b - 1)

RECURSIVE SmoothLoop(_, _)
\* for i in R: dists[i - 1] = min(dists[i], dists[i - 1]), R taken in ascending order
SmoothLoop(dists, R) ==
    IF R = {} THEN dists
    ELSE LET i == CHOOSE a \in R : \A b \in R : a <= b
         IN  SmoothLoop([dists EXCEPT ![i - 1] = Min(dists[i], dists[i - 1])], R \ {i})

\* "smoothen the line": dists[0:2] = dists[2], then the loop over range(len(dists), 2)
Smoothen(dists) ==
    SmoothLoop([i \in DOMAIN dists |-> IF i < 2 THEN dists[2] ELSE dists[i]],
               PyRange(Cardinality(DOMAIN dists), 2))

\* D_full, knns = compute_distance_matrix(data_raw, m, k_max_, slack=slack, sum_dims=False)
SearchBuild ==
    /\ status = "call"
    /\ LET r == compute_distance_matrix
       IN  /\ ~r.err
           /\ D_all' = r.D
           /\ knns' = r.K
    /\ k_motiflet_distances' = [i \in 0..k |-> 0]
    /\ k_motiflet_candidates' = [i \in 0..k |-> None]
    /\ k_motiflet_dims' = [i \in 0..k |-> None]
    /\ upper_bound' = Inf
    /\ test_k' = k
    /\ status' = "sweep"
    /\ UNCHANGED <<time_series, m, k, slack, sum_dims, tie, bin, dot_prev, wrote>>
    /\ UNCHANGED <<au_ef, cur_dims, k_max, n_dims, filter, elbow_points>>

\* compute_distance_matrix raises
SearchBuildRaises ==
    /\ status = "call"
    /\ compute_distance_matrix.err
    /\ status' = "error"
    /\ UNCHANGED <<time_series, m, k, slack, sum_dims, tie, D_all, knns, bin, dot_prev, wrote>>
    /\ UNCHANGED sweepVars

\* one iteration of "for test_k in range(k_max_, 1, -1)"
SweepStep ==
    /\ status = "sweep"
    /\ LET best_dims == compute_relevant_dimensions(D_all, knns, test_k, UseDim)
           res == get_approximate_k_motiflet(D_all, knns, best_dims, test_k, upper_bound)
       IN  /\ D_all' = FillDiagonal(D_all)
           /\ k_motiflet_distances' = [k_motiflet_distances EXCEPT ![test_k] = res.dist]
           /\ k_motiflet_candidates' = [k_motiflet_candidates EXCEPT ![test_k] = res.candidate]
           /\ k_motiflet_dims' = [k_motiflet_dims EXCEPT ![test_k] = res.dims]
           /\ upper_bound' = NextUpperBound(FillDiagonal(D_all), res, test_k, upper_bound)
    /\ test_k' = test_k - 1
    /\ status' = IF test_k - 1 > 1 THEN "sweep" ELSE "smooth"
    /\ UNCHANGED <<time_series, m, k, slack, sum_dims, tie, knns, bin, dot_prev, wrote>>
    /\ UNCHANGED <<au_ef, cur_dims, k_max, n_dims, filter, elbow_points>>

\* "smoothen the line to make it monotonically increasing"
SmoothStep ==
    /\ status = "smooth"
    /\ k_motiflet_distances' = Smoothen(k_motiflet_distances)
    /\ status' = "elbow"
    /\ UNCHANGED buildState
    /\ UNCHANGED <<au_ef, cur_dims, k_max, n_dims, filter, test_k, upper_bound, k_motiflet_candidates,
                   k_motiflet_dims, elbow_points>>
\* elbow_points = find_elbow_points(k_motiflet_distances, elbow_deviation=elbow_deviation)
FindElbows ==
    /\ status = "elbow"
    /\ elbow_points' = find_elbow_points(k_motiflet_distances)
    /\ status' = IF filter THEN "filter" ELSE "done"
    /\ UNCHANGED buildState
    /\ UNCHANGED <<au_ef, cur_dims, k_max, n_dims, filter, test_k, upper_bound, k_motiflet_distances,
                   k_motiflet_candidates, k_motiflet_dims>>

\* if filter: elbow_points = _filter_unique(elbow_points, k_motiflet_candidates, motif_length)
FilterElbows ==
    /\ status = "filter"
    /\ elbow_points' = _filter_unique(elbow_points, k_motiflet_candidates, m)
    /\ status' = "done"
    /\ UNCHANGED buildState
    /\ UNCHANGED <<au_ef, cur_dims, k_max, n_dims, filter, test_k, upper_bound, k_motiflet_distances,
                   k_motiflet_candidates, k_motiflet_dims>>

\* the arguments of the calls of search_k_motiflets_elbow
SweepConfigs ==
    { [chans |-> <<1>>, k_max |-> 3, n_dims |-> 0, slack |-> <<1, 2>>, tie |-> "low",
       filter |-> TRUE],
      [chans |-> <<2>>, k_max |-> MaxKUser, n_dims |-> 0, slack |-> <<1, 2>>, tie |-> "high",
       filter |-> TRUE],
      [chans |-> <<3>>, k_max |-> MaxKUser, n_dims |-> 0, slack |-> <<4, 5>>, tie |-> "low",
       filter |-> FALSE],
      [chans |-> <<1, 2>>, k_max |-> MaxKUser, n_dims |-> 0, slack |-> <<1, 2>>, tie |-> "low",
       filter |-> FALSE],
      [chans |-> <<2, 3>>, k_max |-> 2, n_dims |-> 1, slack |-> <<1, 2>>, tie |-> "high",
       filter |-> TRUE],
      [chans |-> <<1, 2, 3>>, k_max |-> MaxKUser, n_dims |-> 2, slack |-> <<1, 2>>,
       tie |-> "low", filter |-> TRUE],
      [chans |-> <<1, 2, 3>>, k_max |-> MaxKUser, n_dims |-> 1, slack |-> <<4, 5>>,
       tie |-> "high", filter |-> TRUE] }

Init ==
    /\ \E n_ \in 8..MaxSweepLen, cfg \in SweepConfigs :
          /\ time_series \in {Series(cfg.chans, n_), SeriesOf(arr_b, cfg.chans, n_)}
          /\ m \in 2..(n_ - 1)
          /\ slack = cfg.slack
          /\ tie = cfg.tie
          /\ k_max = cfg.k_max
          /\ n_dims = cfg.n_dims
          /\ filter = cfg.filter
    /\ sum_dims = FALSE
    /\ k = KMaxPrime(NSub, m, slack, k_max)
    /\ D_all = <<>>
    /\ knns = <<>>
    /\ bin = <<>>
    /\ dot_prev = <<>>
    /\ wrote = {}
    /\ status = "call"
    /\ test_k = 0
    /\ upper_bound = Inf
    /\ k_motiflet_distances = <<>>
    /\ k_motiflet_candidates = <<>>
    /\ k_motiflet_dims = <<>>
    /\ elbow_points = <<>>
    /\ cur_dims = 0
    /\ au_ef = None

Next ==
    \/ SearchBuild
    \/ SearchBuildRaises
    \/ SweepStep
    \/ SmoothStep
    \/ FindElbows
    \/ FilterElbows

Spec == Init /\ [][Next]_vars

----------------------------------------------------------------------------
(* Properties of the k-sweep (Spec). *)

\* the sizes for which the sweep has stored a motiflet
Stored == {kk \in DOMAIN k_motiflet_candidates : k_motiflet_candidates[kk] # None}

\* max over pairs i < j of the mean over the channels dims of D[c, p_i, p_j]
ExtentOf(D, pos, dims) ==
    LET pairs == {pr \in (DOMAIN pos) \X (DOMAIN pos) : pr[1] < pr[2]}
        val(pr) == MeanOver(D, dims, pos[pr[1]], pos[pr[2]])
    IN  IF pairs = {} THEN 0
        ELSE LET best == CHOOSE pr \in pairs : \A other \in pairs : val(other) <= val(pr)
             IN  val(best)

\* C6: a motiflet returned for size k has exactly k positions, all offsets in [0..N),
\* all distinct and pairwise at least floor(m * slack) apart.
C6_MotifletPositionsValid ==
    \A kk \in Stored :
        LET pos == k_motiflet_candidates[kk]
        IN  /\ DOMAIN pos = 0..(kk - 1)
            /\ \A p \in DOMAIN pos : pos[p] \in Offsets
            /\ \A p, q \in DOMAIN pos :
                  p # q => (pos[p] # pos[q] /\ Abs(pos[p] - pos[q]) >= HalveM(m, slack))

\* C7: the extent recorded for test_k is the pairwise extent of the stored motiflet
\* on the stored dimensions.
C7_ExtentIsPairwiseExtent ==
    \A kk \in Stored :
        k_motiflet_distances[kk]
            = ExtentOf(D_all, k_motiflet_candidates[kk], k_motiflet_dims[kk])

\* C7 witness: a finished sweep that stored a motiflet of three positions on two
\* dimensions with a positive finite extent
C7_Witness ==
    /\ status = "done"
    /\ \E kk \in Stored :
          /\ kk >= 3
          /\ Cardinality(DOMAIN k_motiflet_dims[kk]) >= 2
          /\ k_motiflet_distances[kk] > 0
          /\ k_motiflet_distances[kk] < Inf

\* C10: the returned extent curve is non-decreasing in k on [2..k_max_].
C10_ExtentsNonDecreasing ==
    status = "done" =>
        \A kk \in 2..(k - 1) : k_motiflet_distances[kk] <= k_motiflet_distances[kk + 1]

\* C10 witness: a returned curve that rises strictly, from a sweep over fewer
\* dimensions than channels
C10_Witness ==
    /\ status = "done"
    /\ UseDim < Dims(time_series)
    /\ \E kk \in 2..(k - 1) :
          /\ k_motiflet_distances[kk] < k_motiflet_distances[kk + 1]
          /\ k_motiflet_distances[kk + 1] < Inf

\* the arguments and the result of the call of get_approximate_k_motiflet the sweep
\* makes next
SweepBestDims == compute_relevant_dimensions(D_all, knns, test_k, UseDim)
SweepResult == get_approximate_k_motiflet(D_all, knns, SweepBestDims, test_k, upper_bound)

\* C11: the upper bound handed to the successive calls of the k-sweep never increases,
\* and each call returns an extent that is at most the bound it was given.
C11_UpperBoundNonIncreasing ==
    [][status = "sweep" =>
          /\ upper_bound' <= upper_bound
          /\ k_motiflet_distances'[test_k] <= upper_bound]_vars

\* C11 witness: the sweep has ended with a bound strictly below a finite extent
\* found at k_max_
C11_Witness ==
    /\ status = "done"
    /\ k_motiflet_distances[k] < Inf
    /\ upper_bound < k_motiflet_distances[k]

\* the extent of a candidate without the early return on the bound
UnprunedExtent(D, pos, dims) ==
    IF \E p \in DOMAIN pos : pos[p] = -1 THEN Inf ELSE ExtentOf(D, pos, dims)

RECURSIVE UnprunedLoop(_, _, _, _, _, _, _)
\* the search of get_approximate_k_motiflet with neither the k-th-neighbour test nor
\* the early return of get_pairwise_extent
UnprunedLoop(D, K, best_dims, kk, order, q, st) ==
    IF order >= Cardinality(DOMAIN D[0]) THEN st
    ELSE IF q >= Cardinality(DOMAIN best_dims[order])
    THEN UnprunedLoop(D, K, best_dims, kk, order + 1, 0, st)
    ELSE LET dims == best_dims[order]
             knn_idx == K[best_dims[order][q]][order]
             motiflet_extent == UnprunedExtent(D, Prefix(knn_idx, kk), dims)
             st2 == IF Cardinality(DOMAIN knn_idx) >= kk /\ knn_idx[kk - 1] >= 0
                       /\ motiflet_extent <= st.dist
                    THEN [candidate |-> Prefix(knn_idx, kk), dist |-> motiflet_extent,
                          dims |-> dims]
                    ELSE st
         IN  UnprunedLoop(D, K, best_dims, kk, order, q + 1, st2)

\* the result of the unpruned search on the arguments of the sweep's next call
UnprunedResult ==
    UnprunedLoop(FillDiagonal(D_all), knns, SweepBestDims, test_k, 0, 0,
                 [candidate |-> None, dist |-> upper_bound, dims |-> None])

\* C12: pruning in get_approximate_k_motiflet is admissible: without the
\* k-th-neighbour test and without the early return of get_pairwise_extent the call
\* returns the same positions, extent and dimensions.
C12_PruningAdmissible == status = "sweep" => SweepResult = UnprunedResult

\* C13: whenever the k-sweep records no motiflet for test_k, the extent it records
\* for test_k is +infinity.
C13_NoMotifletMeansInfinite ==
    \A kk \in DOMAIN k_motiflet_candidates :
        (kk >= 2 /\ kk > test_k /\ status \in {"sweep", "smooth"}
            /\ k_motiflet_candidates[kk] = None)
        => k_motiflet_distances[kk] = Inf

\* D[c, i, kappa[c, i, test_k - 1]] as the array is indexed: a pad of -1 names the
\* last offset
KthNeighbourKey(c, i) ==
    LET j == knns[c][i][test_k - 1]
    IN  IF j = -1 THEN D_all[c][i][NSub - 1] ELSE D_all[c][i][j]

----------------------------------------------------------------------------
(* The elbow analysis and the overlap filter on extent curves of their own
   (SpecElbow): the tail of search_k_motiflets_elbow from find_elbow_points on. *)

\* the extents a curve is drawn from
CurveValues == {0, Scale \div 2, 4 * Scale, 16 * Scale, 64 * Scale, Inf}

\* the curves the sweep hands over: dists[0] = dists[1] = dists[2], rising from 2 on
Curves ==
    { [i \in 0..MaxCurveK |-> IF i < 2 THEN tail[2] ELSE tail[i]] :
        tail \in { t \in [2..MaxCurveK -> CurveValues] :
                      \A i \in 2..(MaxCurveK - 1) : t[i] <= t[i + 1] } }

\* a motiflet of kk positions four samples apart, starting at first
Motiflet(first, kk) == [p \in 0..(kk - 1) |-> first + 4 * p]

\* which sizes have no motiflet, and which sizes have theirs shifted by one sample
CandidateShapes ==
    { [none |-> nn, shifted |-> sh] :
        nn \in { {}, {5}, {MaxCurveK}, {3, 4} },
        sh \in { {}, {kk \in 2..MaxCurveK : kk % 2 = 0}, {kk \in 2..MaxCurveK : kk >= 4},
                 {2, 3} } }

InitElbow ==
    /\ k_motiflet_distances \in Curves
    /\ \E shape \in CandidateShapes :
          /\ k_motiflet_candidates =
                 [kk \in 0..MaxCurveK |->
                     IF kk < 2 \/ kk \in shape.none \/ k_motiflet_distances[kk] = Inf
                     THEN None
                     ELSE Motiflet(IF kk \in shape.shifted THEN 1 ELSE 0, kk)]
          /\ k_motiflet_dims =
                 [kk \in 0..MaxCurveK |->
                     IF kk < 2 \/ kk \in shape.none \/ k_motiflet_distances[kk] = Inf
                     THEN None
                     ELSE [q \in 0..0 |-> 0]]
    /\ m \in {4, 8}
    /\ filter \in BOOLEAN
    /\ k = MaxCurveK
    /\ k_max = MaxCurveK
    /\ status = "elbow"
    /\ time_series = <<>>
    /\ slack = <<1, 2>>
    /\ sum_dims = FALSE
    /\ tie = "low"
    /\ D_all = <<>>
    /\ knns = <<>>
    /\ bin = <<>>
    /\ dot_prev = <<>>
    /\ wrote = {}
    /\ n_dims = 0
    /\ test_k = 1
    /\ upper_bound = k_motiflet_distances[2]
    /\ elbow_points = <<>>
    /\ cur_dims = 0
    /\ au_ef = None

NextElbow ==
    \/ FindElbows
    \/ FilterElbows

SpecElbow == InitElbow /\ [][NextElbow]_vars

----------------------------------------------------------------------------
(* Properties of the elbow analysis (SpecElbow). *)

\* find_elbow_points has returned and its result is still in elbow_points
ElbowsFound == status = "filter" \/ (status = "done" /\ ~filter)

\* the elements of elbow_points
ElbowSet == {elbow_points[i] : i \in 1..Len(elbow_points)}

C9_ElbowsNeverEmpty ==
    /\ status \in {"filter", "done"} => Len(elbow_points) >= 1
    /\ (status = "done" /\ filter) =>
          LET input == find_elbow_points(k_motiflet_distances)
          IN  elbow_points[Len(elbow_points)] = input[Len(input)]

\* C9 witness: the filter has dropped an elbow whose motiflet overlaps a later one
C9_Witness ==
    /\ status = "done"
    /\ filter
    /\ Len(elbow_points) >= 1
    /\ Len(elbow_points) < Len(find_elbow_points(k_motiflet_distances))

\* the elbows handed to _filter_unique
FilterInput == find_elbow_points(k_motiflet_distances)

\* at least |A| / 2 of the positions of A have a position of B closer than m / 4
Overlaps(A, B) ==
    2 * Cardinality({ia \in DOMAIN A : \E ib \in DOMAIN B : 4 * Abs(A[ia] - B[ib]) < m})
        >= Cardinality(DOMAIN A)

\* elbow number i of the input is discarded: a later elbow has a motiflet that
\* overlaps the motiflet of elbow i
Discarded(i) ==
    /\ k_motiflet_candidates[FilterInput[i]] # None
    /\ \E j \in (i + 1)..Len(FilterInput) :
          /\ k_motiflet_candidates[FilterInput[j]] # None
          /\ Overlaps(k_motiflet_candidates[FilterInput[i]],
                      k_motiflet_candidates[FilterInput[j]])

----------------------------------------------------------------------------
(* search_k_motiflets_elbow on arguments outside its documented domain (SpecArgs):
   a window of one sample or of the whole series, or k_max below 2. *)

InitArgs ==
    /\ \E n_ \in 8..MaxSweepLen, cfg \in SweepConfigs :
          /\ time_series = Series(cfg.chans, n_)
          /\ \/ m \in {1, n_} /\ k_max = cfg.k_max
             \/ m \in 2..(n_ - 1) /\ k_max \in {0, 1}
          /\ slack = cfg.slack
          /\ tie = cfg.tie
          /\ n_dims = cfg.n_dims
          /\ filter = cfg.filter
    /\ sum_dims = FALSE
    /\ k = KMaxPrime(NSub, m, slack, k_max)
    /\ D_all = <<>>
    /\ knns = <<>>
    /\ bin = <<>>
    /\ dot_prev = <<>>
    /\ wrote = {}
    /\ status = "call"
    /\ test_k = 0
    /\ upper_bound = Inf
    /\ k_motiflet_distances = <<>>
    /\ k_motiflet_candidates = <<>>
    /\ k_motiflet_dims = <<>>
    /\ elbow_points = <<>>
    /\ cur_dims = 0
    /\ au_ef = None

SpecArgs == InitArgs /\ [][Next]_vars

\* C16: search_k_motiflets_elbow called with K < 2 fails fast: it ends in an error
\* without building a distance matrix or running a search.
C16_InvalidKFailsFast ==
    k_max < 2 => (status \in {"call", "error"} /\ D_all = <<>> /\ knns = <<>>)

\* C17: called with a window m < 2 or m >= n, search_k_motiflets_elbow (and the
\* compute_distance_matrix it calls) ends in an error instead of returning a result.
C17_InvalidWindowFailsFast ==
    (m < 2 \/ m >= SeriesLen(time_series)) => status \in {"call", "error"}

\* C18: for a series and window with N = n - m + 1 < K the k-sweep uses K_max' <= 3,
\* does not fail in the partial selection of _argknn and ends with a non-empty
\* elbow set.
C18_ShortSeriesTerminates ==
    NSub < k_max =>
        /\ k <= 3
        /\ status # "error"
        /\ status = "done" => Len(elbow_points) >= 1

-----------------------------------------------------------------------------
(* search_k_motiflets_n_dims_elbow: the sweep over the number of dimensions. *)

\* D_full, knns = compute_distance_matrix(data_raw, m, k, slack=slack, sum_dims=False)
\* and the arrays of length use_dim + 1
DimsBuild ==
    /\ status = "dcall"
    /\ LET r == compute_distance_matrix
       IN  /\ ~r.err
           /\ D_all' = r.D
           /\ knns' = r.K
    /\ k_motiflet_distances' = [i \in 0..UseDim |-> 0]
    /\ k_motiflet_candidates' = [i \in 0..UseDim |-> None]
    /\ k_motiflet_dims' = [i \in 0..UseDim |-> None]
    /\ upper_bound' = Inf
    /\ cur_dims' = UseDim
    /\ status' = IF UseDim > 0 THEN "dsweep" ELSE "dsmooth"
    /\ UNCHANGED <<time_series, m, k, slack, sum_dims, tie, bin, dot_prev, wrote>>
    /\ UNCHANGED <<au_ef, k_max, n_dims, filter, test_k, elbow_points>>

\* compute_distance_matrix raises
DimsBuildRaises ==
    /\ status = "dcall"
    /\ compute_distance_matrix.err
    /\ status' = "error"
    /\ UNCHANGED <<time_series, m, k, slack, sum_dims, tie, D_all, knns, bin, dot_prev, wrote>>
    /\ UNCHANGED sweepVars

\* one iteration of "for dims in range(use_dim, 0, -1)"; the upper bound is not updated
DimsStep ==
    /\ status = "dsweep"
    /\ LET best_dims == compute_relevant_dimensions(D_all, knns, k, cur_dims)
           res == get_approximate_k_motiflet(D_all, knns, best_dims, k, upper_bound)
       IN  /\ D_all' = FillDiagonal(D_all)
           /\ k_motiflet_distances' = [k_motiflet_distances EXCEPT ![cur_dims] = res.dist]
           /\ k_motiflet_candidates' = [k_motiflet_candidates EXCEPT ![cur_dims] = res.candidate]
           /\ k_motiflet_dims' = [k_motiflet_dims EXCEPT ![cur_dims] = res.dims]
    /\ cur_dims' = cur_dims - 1
    /\ status' = IF cur_dims - 1 > 0 THEN "dsweep" ELSE "dsmooth"
    /\ UNCHANGED <<time_series, m, k, slack, sum_dims, tie, knns, bin, dot_prev, wrote>>
    /\ UNCHANGED <<au_ef, k_max, n_dims, filter, test_k, upper_bound, elbow_points>>

\* k_motiflet_distances[0:2] = k_motiflet_distances[2] and the loop after it
DimsSmoothStep ==
    /\ status = "dsmooth"
    /\ 2 \in DOMAIN k_motiflet_distances
    /\ k_motiflet_distances' = Smoothen(k_motiflet_distances)
    /\ status' = "elbow"
    /\ UNCHANGED buildState
    /\ UNCHANGED <<au_ef, cur_dims, k_max, n_dims, filter, test_k, upper_bound, k_motiflet_candidates,
                   k_motiflet_dims, elbow_points>>

\* k_motiflet_distances[2] raises IndexError on an array of length use_dim + 1 < 3
DimsSmoothRaises ==
    /\ status = "dsmooth"
    /\ 2 \notin DOMAIN k_motiflet_distances
    /\ status' = "error"
    /\ UNCHANGED buildState
    /\ UNCHANGED sweepVars

\* the arguments of the calls of search_k_motiflets_n_dims_elbow
DimsConfigs ==
    { [chans |-> <<1>>, k |-> 2, n_dims |-> 0, slack |-> <<1, 2>>, tie |-> "low",
       filter |-> TRUE],
      [chans |-> <<1, 2>>, k |-> 2, n_dims |-> 0, slack |-> <<1, 2>>, tie |-> "low",
       filter |-> TRUE],
      [chans |-> <<2, 3>>, k |-> 3, n_dims |-> 0, slack |-> <<1, 2>>, tie |-> "high",
       filter |-> FALSE],
      [chans |-> <<1, 2, 3>>, k |-> 2, n_dims |-> 0, slack |-> <<4, 5>>, tie |-> "low",
       filter |-> TRUE],
      [chans |-> <<1, 2, 3>>, k |-> 3, n_dims |-> 2, slack |-> <<1, 2>>, tie |-> "low",
       filter |-> FALSE],
      [chans |-> <<1, 2, 3>>, k |-> 2, n_dims |-> 1, slack |-> <<1, 2>>, tie |-> "high",
       filter |-> TRUE],
      [chans |-> <<2, 2>>, k |-> 2, n_dims |-> 0, slack |-> <<1, 2>>, tie |-> "low",
       filter |-> FALSE] }

InitDims ==
    /\ \E n_ \in 8..MaxSweepLen, cfg \in DimsConfigs :
          /\ time_series \in {Series(cfg.chans, n_), SeriesOf(arr_b, cfg.chans, n_)}
          /\ m \in 2..(n_ - 1)
          /\ slack = cfg.slack
          /\ tie = cfg.tie
          /\ k = cfg.k
          /\ k_max = cfg.k
          /\ n_dims = cfg.n_dims
          /\ filter = cfg.filter
    /\ sum_dims = FALSE
    /\ D_all = <<>>
    /\ knns = <<>>
    /\ bin = <<>>
    /\ dot_prev = <<>>
    /\ wrote = {}
    /\ status = "dcall"
    /\ test_k = 0
    /\ upper_bound = Inf
    /\ k_motiflet_distances = <<>>
    /\ k_motiflet_candidates = <<>>
    /\ k_motiflet_dims = <<>>
    /\ elbow_points = <<>>
    /\ cur_dims = 0
    /\ au_ef = None

NextDims ==
    \/ DimsBuild
    \/ DimsBuildRaises
    \/ DimsStep
    \/ DimsSmoothStep
    \/ DimsSmoothRaises
    \/ FindElbows
    \/ FilterElbows

SpecDims == InitDims /\ [][NextDims]_vars

\* both sweeps: calls of search_k_motiflets_elbow and of search_k_motiflets_n_dims_elbow
InitSweeps == Init \/ InitDims

NextSweeps ==
    \/ Next
    \/ NextDims

SpecSweeps == InitSweeps /\ [][NextSweeps]_vars

\* the states in which compute_distance_matrix has returned to a sweep
AfterBuild == status \in {"sweep", "smooth", "dsweep", "dsmooth", "elbow", "filter", "done"}

\* C19: get_approximate_k_motiflet leaves D and the k-NN lists unchanged: after any
\* sequence of calls made by the k-sweep or by the dimension sweep, every entry of D
\* and of knns has the value it had when compute_distance_matrix returned.
C19_SearchLeavesMatrixUnchanged ==
    AfterBuild => LET r == compute_distance_matrix IN D_all = r.D /\ knns = r.K

\* a sweep that has made all its calls, on a matrix with an exclusion zone
C19_Witness ==
    /\ status = "done"
    /\ Stored # {}
    /\ \E c \in DOMAIN D_all : \E i \in DOMAIN D_all[c] : \E j \in DOMAIN D_all[c][i] :
          D_all[c][i][j] = Inf

\* the call search_k_motiflets_n_dims_elbow makes for u dimensions, with U = +infinity
DimsCall(u) ==
    get_approximate_k_motiflet(D_all, knns, compute_relevant_dimensions(D_all, knns, k, u),
                               k, Inf)

\* C20: search_k_motiflets_n_dims_elbow returns, for every u in 1..use_dim, as
\* extents[u] the extent returned by get_approximate_k_motiflet run with the top-u
\* dimensions and U = +infinity, and as candidates[u] the motiflet of that same call.
C20_ExtentsPerDimension ==
    status = "done" =>
        \A u \in 1..UseDim :
            /\ k_motiflet_distances[u] = DimsCall(u).dist
            /\ k_motiflet_candidates[u] = DimsCall(u).candidate

-----------------------------------------------------------------------------
(* Further properties of the build (SpecBuild). *)

\* the distance row of offset o on input channel d, from the direct dot products
ChannelRow(d, o) == DistOf(d, o, _sliding_dot_product(time_series[d], o, m))

RECURSIVE SummedRowFrom(_, _)
\* the sum of the rows of offset o over the input channels d, d + 1, ...
SummedRowFrom(o, d) ==
    IF d = Dims(time_series) - 1 THEN ChannelRow(d, o)
    ELSE RowAdd(ChannelRow(d, o), SummedRowFrom(o, d + 1))

SummedRow(o) == SummedRowFrom(o, 0)

\* C22: with sum_dims = true, compute_distance_matrix returns one channel whose row
\* D[0, o, .] is the sum over all input channels of the per-channel distance rows, and
\* knns[0, o, .] is computed from that row only after every channel was added to it.
C22_SumDimsAccumulates ==
    sum_dims =>
        /\ \A w \in wrote :
              w[1] = "knns" =>
                  /\ D_all[0][w[3]] = SummedRow(w[3])
                  /\ knns[0][w[3]] = KnnRow(_argknn(SummedRow(w[3]), k, m, slack, tie), k)
        /\ Returned =>
              \A o \in Offsets :
                  /\ D_all[0][o] = SummedRow(o)
                  /\ knns[0][o] = KnnRow(_argknn(SummedRow(o), k, m, slack, tie), k)

\* C23: after compute_distance_matrix returns, D[c, i, i] = 0 for every channel c and
\* every offset i, with one matrix per channel and with the channels summed.
C23_DiagonalZero ==
    Returned => \A c \in Channels, i \in Offsets : D_all[c][i][i] = 0

\* a returned build that summed two channels and has an exclusion zone around the diagonal
C23_Witness ==
    /\ Returned
    /\ sum_dims
    /\ Dims(time_series) > 1
    /\ \E i \in Covered : i - 1 \in Covered /\ D_all[0][i][i - 1] = Inf

-----------------------------------------------------------------------------
(* The dot products inside a bin. *)

RECURSIVE RolledAt(_, _, _)
\* dot_rolled at offset order of bin idx on channel d, as the loop over the bin's
\* offsets produces it
RolledAt(idx, d, order) ==
    DotRolled(idx, d, order,
              IF order = BinStart(idx) THEN <<>> ELSE RolledAt(idx, d, order - 1))

\* sum over t in [0..m-1] of x[o + t] * x[i + t], for every i in [0..N)
DirectDot(d, o) ==
    [i \in 0..(NSub - 1) |->
        SumTo([t \in 0..(m - 1) |-> time_series[d][o + t] * time_series[d][i + t]], 0, m - 1)]

\* C27: inside a bin of compute_distance_matrix the dot products obtained by the O(1)
\* roll at offset o equal the direct sliding dot product of the window at o with the
\* series, for every o of the bin and every i in [0..N), i = 0 included.
C27_RollEqualsDirect ==
    \A idx \in Bins, d \in DOMAIN time_series :
        \A o \in BinStart(idx)..(BinEnd(idx) - 1) : RolledAt(idx, d, o) = DirectDot(d, o)

\* a build that rolled at least twice in one bin, on windows of three or more samples
C27_Witness ==
    /\ status = "sweep"
    /\ m >= 3
    /\ \E idx \in Bins : BinEnd(idx) - BinStart(idx) >= 3 /\ BinStart(idx) > 0
    /\ \E idx \in Bins, d \in DOMAIN time_series :
          RolledAt(idx, d, BinStart(idx) + 1) # RolledAt(idx, d, BinStart(idx))

-----------------------------------------------------------------------------
(* The k-NN lists and their reference offsets. *)

\* C30: after compute_distance_matrix returns, every offset is the first entry of its
\* own k-NN list: knns[c, i, 0] = i for every channel c and every offset i, also when
\* offsets outside the exclusion zone have distance 0 to i.
C30_SelfIsFirstNeighbour ==
    Returned => \A c \in Channels, i \in Offsets : knns[c][i][0] = i

-----------------------------------------------------------------------------
(* _argknn on drawn rows. *)

\* the offsets of a drawn row
RowOffsets == 0..(MaxRowLen - 1)

\* the rows with pairwise different entries, the largest cut entries made infinite
DistinctRows ==
    { [j \in RowOffsets |-> IF p[j] > cut THEN Inf ELSE p[j] * Scale] :
        p \in {q \in [RowOffsets -> 1..MaxRowLen] :
                  \A a, b \in RowOffsets : a # b => q[a] # q[b]},
        cut \in {MaxRowLen - 3, MaxRowLen} }

\* rows with many equal entries
TiedRows == [RowOffsets -> {0, Scale, Inf}]

\* knn = _argknn(dist, k, m, slack=slack) on one row, stored as in compute_distance_matrix
ArgKnnCall ==
    /\ status = "knn"
    /\ ~ArgKnnRaises(Cardinality(DOMAIN D_all[0][0]), k)
    /\ knns' = [c \in {0} |-> [o \in {0} |->
                   KnnRow(_argknn(D_all[0][0], k, m, slack, tie), k)]]
    /\ status' = "knn_done"
    /\ UNCHANGED <<time_series, m, k, slack, sum_dims, tie, D_all, bin, dot_prev, wrote>>
    /\ UNCHANGED sweepVars

InitKnn ==
    /\ \E row \in DistinctRows \cup TiedRows :
          D_all = [c \in {0} |-> [o \in {0} |-> row]]
    /\ m \in {2, 4}
    /\ slack = <<1, 2>>
    /\ k = MaxK
    /\ tie \in {"low", "high"}
    /\ time_series = <<>>
    /\ sum_dims = TRUE
    /\ knns = <<>>
    /\ bin = <<>>
    /\ dot_prev = <<>>
    /\ wrote = {}
    /\ status = "knn"
    /\ k_max = 0
    /\ n_dims = 0
    /\ filter = FALSE
    /\ test_k = 0
    /\ upper_bound = Inf
    /\ k_motiflet_distances = <<>>
    /\ k_motiflet_candidates = <<>>
    /\ k_motiflet_dims = <<>>
    /\ elbow_points = <<>>
    /\ cur_dims = 0
    /\ au_ef = None

NextKnn == ArgKnnCall

SpecKnn == InitKnn /\ [][NextKnn]_vars

\* the row handed to _argknn and the list it returned, without the padding
KnnInput == D_all[0][0]
KnnOutput == SelectSeq([p \in 1..k |-> knns[0][0][p - 1]], LAMBDA x : x # -1)

\* idx after the first loop of _argknn(dist, k, m, slack): what the 2k pool gave
PoolPicks(dist) ==
    LET dist_pos == ArgPartition(dist, 2 * k, tie)
        dist_sort == [p \in 1..Len(dist_pos) |-> dist[dist_pos[p]]]
    IN  ArgKnnPool(1, dist_pos, dist_sort, dist, <<>>, k, HalveM(m, slack)).idx

\* C25: _argknn returns at most K indices, in ascending order of their distance in the
\* input row: r[a] <= r[b] for consecutive returned indices a then b, whether they came
\* from the 2K pool or from the scan of the remainder.
C25_KnnAscending ==
    status = "knn_done" =>
        /\ Len(_argknn(KnnInput, k, m, slack, tie)) <= k
        /\ KnnOutput = _argknn(KnnInput, k, m, slack, tie)
        /\ \A p \in 1..(Len(KnnOutput) - 1) :
              KnnInput[KnnOutput[p]] <= KnnInput[KnnOutput[p + 1]]

\* a list whose first entry came from the pool and whose last from the remainder
C25_Witness ==
    /\ status = "knn_done"
    /\ Len(PoolPicks(KnnInput)) = 1
    /\ Len(KnnOutput) = 2
    /\ KnnInput[KnnOutput[1]] < KnnInput[KnnOutput[2]]

\* no two finite entries of the row are equal
NoTies(r) ==
    \A a, b \in DOMAIN r : (a # b /\ r[a] # Inf /\ r[b] # Inf) => r[a] # r[b]

RECURSIVE GreedyKnn(_, _)
\* the reference selection over the whole row: repeatedly the minimum finite entry
\* outside the zones of the picks made so far, until k picks or none remains
GreedyKnn(r, idx) ==
    LET open == {j \in DOMAIN r :
                    r[j] # Inf /\ \A p \in 1..Len(idx) : ~(idx[p] - HalveM(m, slack) <= j
                                                           /\ j < idx[p] + HalveM(m, slack))}
    IN  IF Len(idx) = k \/ open = {} THEN idx
        ELSE LET pos == CHOOSE j \in open : \A o \in open : r[j] <= r[o]
             IN  GreedyKnn(r, Append(idx, pos))

\* C26: on a row without ties among its finite values _argknn returns exactly the
\* reference greedy selection over the whole row stopped after K picks; the 2K pool
\* never changes the outcome, and fewer than K indices are returned only when no finite
\* entry outside the zones of the returned indices remains.
C26_KnnIsGreedy ==
    (status = "knn_done" /\ NoTies(KnnInput)) =>
        /\ KnnOutput = GreedyKnn(KnnInput, <<>>)
        /\ Len(KnnOutput) < k =>
              \A j \in DOMAIN KnnInput :
                  KnnInput[j] # Inf =>
                      \E p \in 1..Len(KnnOutput) :
                          /\ KnnOutput[p] - HalveM(m, slack) <= j
                          /\ j < KnnOutput[p] + HalveM(m, slack)

\* a row of finite, pairwise different values whose pool gave one index only
C26_Witness ==
    /\ status = "knn_done"
    /\ NoTies(KnnInput)
    /\ \A j \in DOMAIN KnnInput : KnnInput[j] # Inf
    /\ Len(PoolPicks(KnnInput)) = 1
    /\ Len(KnnOutput) = k

-----------------------------------------------------------------------------
(* The greedy peak extraction (SpecElbow). *)

\* the indices whose peak value is above alpha before the extraction starts
PeaksAboveAlpha ==
    {i \in DOMAIN k_motiflet_distances : AboveAlpha(Peaks(k_motiflet_distances)[i])}

\* C28: for every extent curve of length K + 1 the greedy peak extraction of
\* find_elbow_points terminates (each round consumes a peak above alpha), and the
\* elbows it returns are either the single fallback 2 or all lie in [3..K-1] with any
\* two of them at least 2 apart.
C28_ElbowsApart ==
    ElbowsFound =>
        /\ Len(elbow_points) <= Max(1, Cardinality(PeaksAboveAlpha))
        /\ \/ elbow_points = <<2>>
           \/ /\ \A e \in ElbowSet : 3 <= e /\ e <= Cardinality(DOMAIN k_motiflet_distances) - 2
              /\ \A e1, e2 \in ElbowSet : e1 # e2 => Abs(e1 - e2) >= 2

\* a curve with two neighbouring peaks above alpha, of which one was returned
C28_Witness ==
    /\ ElbowsFound
    /\ Len(elbow_points) >= 2
    /\ \E i \in PeaksAboveAlpha : i + 1 \in PeaksAboveAlpha /\ i + 1 \in ElbowSet

-----------------------------------------------------------------------------
(* The pairs of a k-NN list (SpecSweeps). *)

\* the call the sweep at hand makes next
CallResult ==
    IF status = "sweep" THEN SweepResult
    ELSE get_approximate_k_motiflet(D_all, knns,
                                    compute_relevant_dimensions(D_all, knns, k, cur_dims),
                                    k, upper_bound)

\* C29: for every k-NN list built by compute_distance_matrix and every pair of its
\* non-padding entries p_i (earlier) and p_j (later), D[c, p_i, p_j] is finite on every
\* channel; so every non-null motiflet get_approximate_k_motiflet returns has a finite
\* extent, although the exclusion zone of a row covers [o - floor(m*s), o + floor(m*s)).
C29_ListPairsFinite ==
    /\ AfterBuild =>
          \A c \in Channels, i \in Offsets : \A p, q \in 0..(k - 1) :
              (p < q /\ knns[c][i][p] # -1 /\ knns[c][i][q] # -1) =>
                  \A c2 \in Channels : D_all[c2][knns[c][i][p]][knns[c][i][q]] # Inf
    /\ status \in {"sweep", "dsweep"} =>
          (CallResult.candidate # None => CallResult.dist # Inf)

\* a call that returns a motiflet, on lists holding a pair exactly floor(m*s) apart,
\* whose distance is infinite when read from the later entry's row
C29_Witness ==
    /\ status \in {"sweep", "dsweep"}
    /\ CallResult.candidate # None
    /\ \E c \in Channels, i \in Offsets : \E p, q \in 0..(k - 1) :
          /\ p < q
          /\ knns[c][i][p] # -1
          /\ knns[c][i][q] = knns[c][i][p] + HalveM(m, slack)
          /\ D_all[c][knns[c][i][q]][knns[c][i][p]] = Inf

-----------------------------------------------------------------------------
(* The loop over the channels of best_dims[order] (SpecDims). *)

\* best_dims and k of the call the dimension sweep makes next
CallBestDims == compute_relevant_dimensions(D_all, knns, k, cur_dims)

RECURSIVE ApproxLoopFirst(_, _, _, _, _, _)
\* the search with only the first d of best_dims[order] evaluated for each order
ApproxLoopFirst(D, K, best_dims, kk, order, st) ==
    IF order >= Cardinality(DOMAIN D[0]) THEN st
    ELSE ApproxLoopFirst(D, K, best_dims, kk, order + 1,
                         IF Cardinality(DOMAIN best_dims[order]) = 0 THEN st
                         ELSE ApproxBody(D, K, best_dims, kk, order, best_dims[order][0], st))

FirstOnlyResult ==
    ApproxLoopFirst(FillDiagonal(D_all), knns, CallBestDims, k, 0,
                    [candidate |-> None, dist |-> upper_bound, dims |-> None])

\* C24 as stated: evaluating only the first d of best_dims[o] for each reference offset
\* o returns the same (positions, extent, dims) as the full loop, for every input.
C24_FirstChannelSuffices ==
    status = "dsweep" => CallResult = FirstOnlyResult

\* for every offset the channels of best_dims[o] hold the same first k neighbours
SameLists ==
    \A o \in Offsets : \A q \in DOMAIN CallBestDims[o] :
        Prefix(knns[CallBestDims[o][q]][o], k) = Prefix(knns[CallBestDims[o][0]][o], k)

\* C24 amended: every iteration over d in best_dims[o] uses the same dims
\* best_dims[o] but its own list knns[d, o]; the iterations beyond the first are a
\* no-op when the channels of best_dims[o] hold the same first k neighbours for o.
C24_SameListsSuffice ==
    (status = "dsweep" /\ SameLists) => CallResult = FirstOnlyResult

\* a call on two channels with equal lists that returns a motiflet
C24_Witness ==
    /\ status = "dsweep"
    /\ cur_dims >= 2
    /\ SameLists
    /\ CallResult.candidate # None

-----------------------------------------------------------------------------
(* find_au_ef_motif_length: the sweep over the motif lengths. *)

\* the 0 an entry of np.zeros(len, dtype=object) holds until it is assigned
NoEntry == <<>>

\* fractions <<numerator, denominator>>; np.inf is <<1, 0>>
AuInf == <<1, 0>>
AuOne == <<1, 1>>

\* a <= b for AU-EF values
AuLeq(a, b) ==
    IF b[2] = 0 THEN TRUE
    ELSE IF a[2] = 0 THEN FALSE
    ELSE a[1] * b[2] <= b[1] * a[2]

\* data[:, ::subsample]
Subsampled(data, subsample) ==
    [c \in DOMAIN data |->
        [t \in 0..((SeriesLen(data) + subsample - 1) \div subsample - 1) |->
            data[c][t * subsample]]]

\* motif_length_range[i] in the place of motif_length_range[::-1][i]
LoopLengthForward(i) == au_ef.motif_length_range[i + 1]

\* the m of iteration i of "for i, m in enumerate(motif_length_range[::-1])"
LoopLength(i) == au_ef.motif_length_range[Len(au_ef.motif_length_range) - i]

\* ((dists_ - dists_.min()) / (dists_.max() - dists_.min())).sum() / len(dists_) over the
\* finite entries dists_ of dist, and 1.0 if they are all equal
AuEfOf(dist) ==
    LET fin == {j \in DOMAIN dist : dist[j] # Inf}
        lo == CHOOSE j \in fin : \A o \in fin : dist[j] <= dist[o]
        hi == CHOOSE j \in fin : \A o \in fin : dist[j] >= dist[o]
        total == SumTo([j \in DOMAIN dist |-> IF j \in fin THEN dist[j] - dist[lo] ELSE 0],
                       0, Cardinality(DOMAIN dist) - 1)
    IN  IF dist[hi] = dist[lo] THEN AuOne
        ELSE <<total, (dist[hi] - dist[lo]) * Cardinality(fin)>>

\* candidates[elbow_points]
TakeAt(candidates, elbows) == [j \in 1..Len(elbows) |-> candidates[elbows[j]]]

\* an object array of motiflets times subsample
Scaled(motiflets, subsample) ==
    IF motiflets = NoEntry THEN NoEntry
    ELSE [j \in 1..Len(motiflets) |->
             [p \in DOMAIN motiflets[j] |-> motiflets[j][p] * subsample]]

\* a[::-1]
Reversed(a) == [j \in 1..Len(a) |-> a[Len(a) + 1 - j]]

\* np.nanargmin(au_efs), as a position from 1
NanArgMin(a) ==
    CHOOSE p \in 1..Len(a) :
        /\ \A q \in 1..Len(a) : AuLeq(a[p], a[q])
        /\ \A q \in 1..(p - 1) : ~AuLeq(a[q], a[p])

\* argrelextrema(au_efs, np.less_equal, order=order): positions from 1, the neighbours
\* beyond the ends clipped to the ends
ArgRelMinima(a, order) ==
    {p \in 1..Len(a) :
        \A sft \in 1..order :
            /\ AuLeq(a[p], a[Min(p + sft, Len(a))])
            /\ AuLeq(a[p], a[Max(p - sft, 1)])}

\* the subsampling and the arrays before the loop
AuEfStart ==
    /\ status = "au_call"
    /\ time_series' = IF au_ef.subsample > 1
                      THEN Subsampled(time_series, au_ef.subsample)
                      ELSE time_series
    /\ au_ef' = [au_ef EXCEPT
                    !.i = 0,
                    !.au_efs = [j \in 1..Len(au_ef.motif_length_range) |-> AuInf],
                    !.elbows = [j \in 1..Len(au_ef.motif_length_range) |-> NoEntry],
                    !.top_motiflets = [j \in 1..Len(au_ef.motif_length_range) |-> NoEntry],
                    !.top_motiflets_dims = [j \in 1..Len(au_ef.motif_length_range) |-> NoEntry],
                    !.dists = [j \in 1..Len(au_ef.motif_length_range) |-> NoEntry]]
    /\ status' = "au_loop"
    /\ UNCHANGED <<m, k, slack, sum_dims, tie, D_all, knns, bin, dot_prev, wrote>>
    /\ UNCHANGED <<cur_dims, k_max, n_dims, filter, test_k, upper_bound, k_motiflet_distances,
                   k_motiflet_candidates, k_motiflet_dims, elbow_points>>

\* "if m // subsample < data.shape[-1]": search_k_motiflets_elbow is entered with
\* motif_length = m // subsample
AuEfSearch ==
    /\ status = "au_loop"
    /\ au_ef.i < Len(au_ef.motif_length_range)
    /\ LoopLength(au_ef.i) \div au_ef.subsample < SeriesLen(time_series)
    /\ m' = LoopLength(au_ef.i) \div au_ef.subsample
    /\ k' = KMaxPrime(SeriesLen(time_series) - m' + 1, m', slack, k_max)
    /\ status' = "call"
    /\ UNCHANGED <<time_series, slack, sum_dims, tie, D_all, knns, bin, dot_prev, wrote>>
    /\ UNCHANGED <<au_ef, cur_dims, k_max, n_dims, filter, test_k, upper_bound,
                   k_motiflet_distances, k_motiflet_candidates, k_motiflet_dims, elbow_points>>

\* the length is not below the length of the data: the entries of i keep their
\* initial values
AuEfSkip ==
    /\ status = "au_loop"
    /\ au_ef.i < Len(au_ef.motif_length_range)
    /\ ~(LoopLength(au_ef.i) \div au_ef.subsample < SeriesLen(time_series))
    /\ au_ef' = [au_ef EXCEPT !.i = @ + 1]
    /\ UNCHANGED buildVars
    /\ UNCHANGED <<cur_dims, k_max, n_dims, filter, test_k, upper_bound, k_motiflet_distances,
                   k_motiflet_candidates, k_motiflet_dims, elbow_points>>

\* the loop body after search_k_motiflets_elbow has returned
AuEfRecord ==
    /\ status = "done"
    /\ au_ef # None
    /\ LET i == au_ef.i + 1
           dist == k_motiflet_distances
           elbows2 == _filter_unique(elbow_points, k_motiflet_candidates, m)
           found == Len(elbows2) > 0
       IN  IF \A j \in DOMAIN dist : dist[j] = Inf
           THEN /\ status' = "error"
                /\ au_ef' = au_ef
           ELSE /\ status' = "au_loop"
                /\ au_ef' = [au_ef EXCEPT
                       !.i = @ + 1,
                       !.au_efs[i] = IF found THEN AuEfOf(dist) ELSE AuOne,
                       !.elbows[i] = IF found THEN elbows2 ELSE <<2>>,
                       !.top_motiflets[i] =
                           IF found THEN TakeAt(k_motiflet_candidates, elbows2)
                           ELSE <<k_motiflet_candidates[2]>>,
                       !.top_motiflets_dims[i] =
                           IF found THEN TakeAt(k_motiflet_dims, elbows2)
                           ELSE <<k_motiflet_dims[2]>>,
                       !.dists[i] = dist,
                       !.log = @ @@ (LoopLength(au_ef.i) :>
                                        [dist |-> dist,
                                         candidates |-> k_motiflet_candidates,
                                         candidate_dims |-> k_motiflet_dims,
                                         elbow_points |-> elbow_points])]
    /\ UNCHANGED buildState
    /\ UNCHANGED <<cur_dims, k_max, n_dims, filter, test_k, upper_bound, k_motiflet_distances,
                   k_motiflet_candidates, k_motiflet_dims, elbow_points>>

\* "reverse order", minimum, au_ef_minima and the return
AuEfReturn ==
    /\ status = "au_loop"
    /\ au_ef.i = Len(au_ef.motif_length_range)
    /\ LET au_efs == Reversed(au_ef.au_efs)
           tops == Reversed(au_ef.top_motiflets)
       IN  IF \E j \in 1..Len(tops) : tops[j] # NoEntry /\ \E e \in 1..Len(tops[j]) : tops[j][e] = None
           THEN /\ status' = "error"
                /\ au_ef' = au_ef
           ELSE /\ status' = "au_done"
                /\ au_ef' = [au_ef EXCEPT
                       !.au_efs = au_efs,
                       !.elbows = Reversed(au_ef.elbows),
                       !.dists = Reversed(au_ef.dists),
                       !.top_motiflets =
                           [j \in 1..Len(tops) |-> Scaled(tops[j], au_ef.subsample)],
                       !.top_motiflets_dims = Reversed(au_ef.top_motiflets_dims),
                       !.minimum = au_ef.motif_length_range[NanArgMin(au_efs)],
                       !.au_ef_minima = ArgRelMinima(au_efs, au_ef.subsample)]
    /\ UNCHANGED buildState
    /\ UNCHANGED <<cur_dims, k_max, n_dims, filter, test_k, upper_bound, k_motiflet_distances,
                   k_motiflet_candidates, k_motiflet_dims, elbow_points>>

\* arr followed by arr_b, channel by channel (d = 3, n = 28)
arr_long == [c \in 1..3 |-> arr[c] \o arr_b[c]]

\* the arguments of the calls of find_au_ef_motif_length
AuEfConfigs ==
    { [data |-> Series(<<1>>, MaxSweepLen), range |-> <<3, 4>>, subsample |-> 1,
       k_max |-> MaxKUser, tie |-> "low"],
      [data |-> Series(<<2, 3>>, MaxSweepLen), range |-> <<2, 3, 5>>, subsample |-> 1,
       k_max |-> MaxKUser, tie |-> "low"],
      [data |-> SeriesOf(arr_b, <<1, 2>>, MaxSweepLen), range |-> <<4, 2, 6>>, subsample |-> 1,
       k_max |-> 3, tie |-> "high"],
      [data |-> Series(<<3>>, MaxSweepLen), range |-> <<3, 2 * MaxSweepLen, 5>>,
       subsample |-> 1, k_max |-> MaxKUser, tie |-> "low"],
      [data |-> Series(<<1, 2>>, MaxSweepLen - 1), range |-> <<3, 7>>, subsample |-> 1,
       k_max |-> MaxKUser, tie |-> "low"],
      [data |-> SeriesOf(arr_long, <<1, 3>>, 2 * MaxSweepLen), range |-> <<4, 6, 9>>,
       subsample |-> 2, k_max |-> MaxKUser, tie |-> "low"],
      [data |-> SeriesOf(arr_long, <<2>>, 2 * MaxSweepLen - 1), range |-> <<7, 5>>,
       subsample |-> 2, k_max |-> 3, tie |-> "high"] }

InitAuEf ==
    /\ \E cfg \in AuEfConfigs :
          /\ time_series = cfg.data
          /\ k_max = cfg.k_max
          /\ tie = cfg.tie
          /\ au_ef = [motif_length_range |-> cfg.range, subsample |-> cfg.subsample,
                      i |-> 0, au_efs |-> <<>>, elbows |-> <<>>, top_motiflets |-> <<>>,
                      top_motiflets_dims |-> <<>>, dists |-> <<>>, minimum |-> 0,
                      au_ef_minima |-> {}, log |-> <<>>]
    /\ slack \in Slacks
    /\ n_dims \in {0, 1}
    /\ filter = TRUE
    /\ sum_dims = FALSE
    /\ m = 0
    /\ k = 0
    /\ D_all = <<>>
    /\ knns = <<>>
    /\ bin = <<>>
    /\ dot_prev = <<>>
    /\ wrote = {}
    /\ status = "au_call"
    /\ test_k = 0
    /\ upper_bound = Inf
    /\ k_motiflet_distances = <<>>
    /\ k_motiflet_candidates = <<>>
    /\ k_motiflet_dims = <<>>
    /\ elbow_points = <<>>
    /\ cur_dims = 0

NextAuEf ==
    \/ AuEfStart
    \/ AuEfSearch
    \/ AuEfSkip
    \/ AuEfRecord
    \/ AuEfReturn
    \/ SearchBuild
    \/ SearchBuildRaises
    \/ SweepStep
    \/ SmoothStep
    \/ FindElbows
    \/ FilterElbows

SpecAuEf == InitAuEf /\ [][NextAuEf]_vars

\* the positions of motif_length_range
LengthIndex == 1..Len(au_ef.motif_length_range)

\* C21: find_au_ef_motif_length returns per-length arrays (AU-EF, elbows, motiflets,
\* dims, extents) whose entry at index i is the one computed from the k-sweep for
\* motif_length_range[i], although the lengths are iterated in reverse, and the returned
\* best length is a member of the range whose AU-EF is at most that of every other.
C21_ArraysAlignedWithRange ==
    status = "au_done" =>
        /\ \A i \in LengthIndex :
              LET len == au_ef.motif_length_range[i]
              IN  IF len \in DOMAIN au_ef.log
                  THEN LET sweep == au_ef.log[len]
                           elbows == _filter_unique(sweep.elbow_points, sweep.candidates,
                                                    len \div au_ef.subsample)
                       IN  /\ au_ef.au_efs[i] = AuEfOf(sweep.dist)
                           /\ au_ef.dists[i] = sweep.dist
                           /\ au_ef.elbows[i] = elbows
                           /\ au_ef.top_motiflets[i]
                                  = Scaled(TakeAt(sweep.candidates, elbows), au_ef.subsample)
                           /\ au_ef.top_motiflets_dims[i]
                                  = TakeAt(sweep.candidate_dims, elbows)
                  ELSE au_ef.au_efs[i] = AuInf
        /\ \E i \in LengthIndex :
              /\ au_ef.motif_length_range[i] = au_ef.minimum
              /\ \A j \in LengthIndex : AuLeq(au_ef.au_efs[i], au_ef.au_efs[j])

\* a return over three lengths whose first and last AU-EF differ and whose best length
\* is not the first of the range
C21_Witness ==
    /\ status = "au_done"
    /\ Len(au_ef.motif_length_range) >= 3
    /\ au_ef.au_efs[1] # au_ef.au_efs[Len(au_ef.motif_length_range)]
    /\ au_ef.minimum # au_ef.motif_length_range[1]
    /\ DOMAIN au_ef.log = {au_ef.motif_length_range[i] : i \in LengthIndex}

============================================================================
